---- MODULE Spec2Model ----
(***************************************************************************)
(* Verification model of the reactive component runtime:                   *)
(*   - idom/core/render.py      AbstractRenderer, SingleStateRenderer,     *)
(*                              SharedStateRenderer                        *)
(*   - reactpy/core/hooks.py    use_state, use_reducer, use_effect,        *)
(*                              use_async_effect, use_memo, strictly_equal *)
(*   - reactpy/core/vdom.py     Vdom.__call__, _flatten_children           *)
(* Each subsystem has its own specification over the shared variable       *)
(* tuple; the variables of the other subsystems stay at their initial      *)
(* value.                                                                  *)
(***************************************************************************)
EXTENDS Integers, Sequences, FiniteSets, TLC

(***************************************************************************)
(* Bounds of the model                                                     *)
(***************************************************************************)
\* number of updates the layout hands to the shared render loop
MaxUpdates == 2

\* client contexts (distinct keys passed to run) and callers of join()
Clients == {"c1", "c2"}
Joiners == {"j1", "j2"}
FirstJoiner == "j1"

\* number of updates the layout reports while the teardown is examined
MaxJoinUpdates == 1

\* number of render results and of events of one single-state session
MaxCycles == 2
Events == {"e1", "e2"}

\* number of registrations of one effect hook position
MaxRegs == 2
Regs == 1..MaxRegs

\* number of dispatches to one state cell
MaxDispatches == 3

\* number of renders of one use_memo position, and length of a dependency list
MaxRenders == 2
MaxDeps == 2

\* the longest sequence of arguments, of nested children and of attribute
\* entries that is drawn as an input
MaxLen == 2

\* node ids of the layout; Root models layout.root
Ids == {"root", "a"}
Root == "root"

(***************************************************************************)
(* State of the shared renderer (SharedStateRenderer.__init__)             *)
(***************************************************************************)
VARIABLES
    tg,         \* self.task_group: "init" | "active" | "done"
    tgErr,      \* the task group recorded a child failure and cancelled its scope
    joining,    \* self._joining
    jpc,        \* position of each join() caller inside __aexit__
    rpc,        \* position of self._render_task inside _render_loop
    rupd,       \* the update the render loop is processing (src, new, old, error)
    models,     \* self._models: node id -> node
    updates,    \* self._updates: context -> queue of LayoutUpdate
    spc,        \* position of each session task (AbstractRenderer.run)
    opc,        \* position of each session's _outgoing_loop
    ipc,        \* position of each session's _incoming_loop
    held,       \* the message a session's outgoing loop is passing to send
    sent,       \* the messages send has accepted, per client
    \* history variables (read by the properties only)
    hist,       \* every update layout.render() returned to the render loop
    applied,    \* number of updates whose merge and eviction have completed
    whole,      \* self._models as it was after the last complete update
    enq,        \* per client: numbers of the updates put on its queue
    snapAt,     \* per client: value of applied when its snapshot was built
    snapSent,   \* per client: the snapshot was passed to send
    teardowns   \* number of times task_group.__aexit__ was entered

rvars == <<tg, tgErr, joining, jpc, rpc, rupd, models, updates, spc, opc, ipc,
           held, sent, hist, applied, whole, enq, snapAt, snapSent, teardowns>>

(***************************************************************************)
(* State of one use_effect / use_async_effect hook position                *)
(***************************************************************************)
VARIABLES
    ekind,      \* "sync" (use_effect) or "async" (use_async_effect)
    cur,        \* cleanup_func.current: 0 is None, k the cleanup returned by body k
    epc,        \* position of each registration's effect(stop) coroutine
    stop,       \* the stop event of each registration is set
    tpc,        \* use_async_effect: state of the body task of each registration
    tres,       \* use_async_effect: the body returned a cleanup callable
    elog        \* history: bodies started, cleanups invoked, tasks cancelled

evars == <<ekind, cur, epc, stop, tpc, tres, elog>>

(***************************************************************************)
(* State of one use_state cell (_CurrentState) and of one use_memo cell    *)
(***************************************************************************)
VARIABLES
    value,      \* _CurrentState.value
    renders,    \* number of hook.schedule_render() calls
    dlog,       \* history: each dispatch, with the value stored when it was made
    memo,       \* _Memo: empty, value, deps
    mlast,      \* history: the last render of the use_memo position
    mcount      \* number of renders of the use_memo position

svars == <<value, renders, dlog>>
mvars == <<memo, mlast, mcount>>

(***************************************************************************)
(* Observations of the running program, read by the properties only        *)
(***************************************************************************)
VARIABLES
    startObs,   \* per client: what _outgoing_loop found when it started
    regAt       \* per client: number of updates pulled when run registered its queue

ovars == <<startObs, regAt>>

(***************************************************************************)
(* One session of a SingleStateRenderer (AbstractRenderer.run)             *)
(***************************************************************************)
VARIABLES
    srun,       \* position of run: "none" | "running" | "raising"
    sopc,       \* position of the outgoing loop
    sipc,       \* position of the incoming loop
    srender,    \* number of calls of layout.render() started
    sres,       \* the results layout.render() returned, in order
    ssend,      \* the messages passed to send, in order
    sdone,      \* number of calls of send that completed
    srecv,      \* number of calls of recv started
    sevs,       \* the events recv returned, in order
    strig,      \* the events passed to layout.trigger, in order
    strdone     \* number of calls of layout.trigger that completed

nvars == <<srun, sopc, sipc, srender, sres, ssend, sdone, srecv, sevs, strig, strdone>>

(***************************************************************************)
(* One use_effect / use_async_effect position over successive renders      *)
(***************************************************************************)
VARIABLES
    rlog,       \* the dependencies of each render, after inference
    added       \* the renders in which hook.add_effect was called

uvars == <<rlog, added>>

(***************************************************************************)
(* A call of strictly_equal                                                *)
(***************************************************************************)
VARIABLES
    qx,         \* the first argument
    qy,         \* the second argument
    qres        \* whether the call was made, and what it returned

qvars == <<qx, qy, qres>>

(***************************************************************************)
(* A call of a Vdom constructor                                            *)
(***************************************************************************)
VARIABLES
    vargs,      \* the positional arguments
    vres,       \* the outcome of the call
    vself       \* the fields of the Vdom instance that is called

vvars == <<vargs, vres, vself>>

(***************************************************************************)
(* One use_reducer position over successive renders                        *)
(***************************************************************************)
VARIABLES
    rconst,     \* the _use_const slot: the dispatcher and the reducer it closes over
    rret        \* what each render's use_reducer call returned

dvars == <<rconst, rret>>

\* the variables added to the model after the hooks, and for each group of
\* them the other groups
extVars == <<ovars, nvars, uvars, qvars, vvars, dvars>>
ovarsRest == <<nvars, uvars, qvars, vvars, dvars>>
nvarsRest == <<ovars, uvars, qvars, vvars, dvars>>
uvarsRest == <<ovars, nvars, qvars, vvars, dvars>>
qvarsRest == <<ovars, nvars, uvars, vvars, dvars>>
vvarsRest == <<ovars, nvars, uvars, qvars, dvars>>
dvarsRest == <<ovars, nvars, uvars, qvars, vvars>>

vars == <<rvars, evars, svars, mvars, extVars>>

(***************************************************************************)
(* Values                                                                  *)
(***************************************************************************)
EmptyMap == [i \in {} |-> 0]

\* The shapes of the updates the layout reports, as <<ids in new, old>>: a
\* full render, a render of the root that removes "a", a render of "a", a
\* render that lists "a" as new and as old, and a removal of "a" and the root.
\* The ids in old need not be in the shared model.
UpdateShapes ==
    { <<{"root", "a"}, << >> >>,
      <<{"root"}, <<"a">> >>,
      <<{"a"}, << >> >>,
      <<{"a"}, <<"a">> >>,
      <<{}, <<"a", "root">> >> }

\* LayoutUpdate(src, new, old, error) as returned by layout.render(); the node
\* stored for an id is the number n of the update that rendered it.  An update
\* that carries an error marker carries no diff.
LayoutUpdates(n) ==
    {[src |-> Root, new |-> [i \in sh[1] |-> n], old |-> sh[2], error |-> "none"] :
        sh \in UpdateShapes}
    \cup {[src |-> "a", new |-> EmptyMap, old |-> << >>, error |-> "failed"]}

NoUpdate == [src |-> Root, new |-> EmptyMap, old |-> << >>, error |-> "none"]
NoMessage == [root |-> Root, src |-> Root, new |-> EmptyMap, old |-> << >>]

\* variable groups, for the UNCHANGED clauses
joinVars == <<tg, tgErr, joining, jpc, teardowns>>
loopVars == <<rpc, rupd, models, hist, applied, whole>>
sessVars == <<spc, opc, ipc, held, sent, snapAt, snapSent>>
queueVars == <<updates, enq>>
hookVars == <<evars, svars, mvars, extVars>>

(***************************************************************************)
(* SharedStateRenderer._render_loop, statement by statement.  The loop     *)
(* suspends only in layout.render(): the queues are unbounded, so put()    *)
(* never yields, and no other task runs between the merge and the fan-out  *)
(* (RenderSuspended guards every step of every other task).                *)
(***************************************************************************)
RenderSuspended == rpc \in {"none", "render", "cancelled", "failed"}

\* a merge in which an id already in the model keeps its node
MergeNewKeepOld(m, new) ==
    [i \in DOMAIN m \cup DOMAIN new |-> IF i \in DOMAIN m THEN m[i] ELSE new[i]]

\* self._models.update(new)
MergeNew(m, new) ==
    [i \in DOMAIN m \cup DOMAIN new |-> IF i \in DOMAIN new THEN new[i] ELSE m[i]]

\* for old_id in old: del self._models[old_id]   (KeyError on a missing id)
RECURSIVE EvictOld(_, _)
EvictOld(m, old) ==
    IF old = << >> THEN [m |-> m, ok |-> TRUE]
    ELSE IF Head(old) \notin DOMAIN m THEN [m |-> m, ok |-> FALSE]
    ELSE EvictOld([i \in DOMAIN m \ {Head(old)} |-> m[i]], Tail(old))

\* src, new, old, error = await self._layout.render()
RenderReturns(u) ==
    /\ rpc = "render"
    /\ Len(hist) < MaxUpdates
    /\ rupd' = u
    /\ hist' = Append(hist, u)
    /\ rpc' = "merge"
    /\ UNCHANGED <<models, applied, whole, joinVars, sessVars, queueVars, hookVars>>

\* layout.render() raises: the render task ends with the exception stored in it
RenderRaises ==
    /\ rpc = "render"
    /\ rpc' = "failed"
    /\ UNCHANGED <<rupd, models, hist, applied, whole, joinVars, sessVars,
                   queueVars, hookVars>>

RenderMerge ==
    /\ rpc = "merge"
    /\ models' = MergeNew(models, rupd.new)
    /\ rpc' = "evict"
    /\ UNCHANGED <<rupd, hist, applied, whole, joinVars, sessVars, queueVars,
                   hookVars>>

RenderEvict ==
    /\ rpc = "evict"
    /\ LET r == EvictOld(models, rupd.old) IN
        /\ models' = r.m
        /\ rpc' = IF r.ok THEN "fanout" ELSE "failed"
        /\ applied' = IF r.ok THEN applied + 1 ELSE applied
        /\ whole' = IF r.ok THEN r.m ELSE whole
    /\ UNCHANGED <<rupd, hist, joinVars, sessVars, queueVars, hookVars>>

\* for queue in self._updates.values(): await queue.put(LayoutUpdate(...))
RenderFanout ==
    /\ rpc = "fanout"
    /\ updates' = [c \in DOMAIN updates |-> Append(updates[c], rupd)]
    /\ enq' = [c \in Clients |->
                 IF c \in DOMAIN updates THEN Append(enq[c], Len(hist)) ELSE enq[c]]
    /\ rpc' = "render"
    /\ UNCHANGED <<rupd, models, hist, applied, whole, joinVars, sessVars, hookVars>>

(***************************************************************************)
(* SharedStateRenderer.start / __aenter__ and run                          *)
(***************************************************************************)
\* await self.task_group.__aenter__(); self._render_task = ensure_future(...)
Start ==
    /\ tg = "init"
    /\ tg' = "active"
    /\ rpc' = "render"
    /\ UNCHANGED <<tgErr, joining, jpc, teardowns, rupd, models, hist, applied,
                   whole, sessVars, queueVars, hookVars>>

\* what task_group.spawn does with the session task: it refuses when the group
\* is not active, and a task started in a cancelled scope is cancelled at once
Spawn ==
    IF tg # "active" THEN "rejected"
    ELSE IF tgErr THEN "cancelled"
    ELSE "spawned"

\* self._updates[context] = asyncio.Queue(); await self.task_group.spawn(...)
Run(c) ==
    /\ RenderSuspended
    /\ spc[c] = "none"
    /\ updates' = [k \in DOMAIN updates \cup {c} |-> IF k = c THEN << >> ELSE updates[k]]
    /\ spc' = [spc EXCEPT ![c] = Spawn]
    /\ regAt' = [regAt EXCEPT ![c] = Len(hist)]
    /\ UNCHANGED <<opc, ipc, held, sent, snapAt, snapSent, enq, joinVars, loopVars,
                   evars, svars, mvars, startObs, ovarsRest>>

(***************************************************************************)
(* AbstractRenderer.run: the two loops of one session under one task group *)
(***************************************************************************)
\* async with create_task_group() as group: spawn(_outgoing_loop); spawn(_incoming_loop)
SessionStart(c) ==
    /\ RenderSuspended
    /\ spc[c] = "spawned"
    /\ spc' = [spc EXCEPT ![c] = "running"]
    /\ opc' = [opc EXCEPT ![c] = "start"]
    /\ ipc' = [ipc EXCEPT ![c] = "recv"]
    /\ UNCHANGED <<held, sent, snapAt, snapSent, joinVars, loopVars, queueVars,
                   hookVars>>

\* {"root": root, "src": root, "new": self._models, "old": []}
Snapshot(m) == [root |-> Root, src |-> Root, new |-> m, old |-> << >>]

\* SharedStateRenderer._outgoing_loop up to its first await
OutgoingStart(c) ==
    /\ RenderSuspended
    /\ opc[c] = "start"
    /\ IF Root \in DOMAIN models
       THEN /\ held' = [held EXCEPT ![c] = Snapshot(models)]
            /\ snapAt' = [snapAt EXCEPT ![c] = applied]
            /\ opc' = [opc EXCEPT ![c] = "snap"]
       ELSE /\ opc' = [opc EXCEPT ![c] = "get"]
            /\ UNCHANGED <<held, snapAt>>
    /\ startObs' = [startObs EXCEPT ![c] = [started |-> TRUE,
                                            root |-> Root \in DOMAIN models,
                                            queued |-> Len(updates[c]),
                                            model |-> models]]
    /\ UNCHANGED <<spc, ipc, sent, snapSent, joinVars, loopVars, queueVars,
                   evars, svars, mvars, regAt, ovarsRest>>

\* the await send(...) of the snapshot completes
SendSnapshot(c) ==
    /\ RenderSuspended
    /\ opc[c] = "snap"
    /\ sent' = [sent EXCEPT ![c] = Append(@, held[c])]
    /\ snapSent' = [snapSent EXCEPT ![c] = TRUE]
    /\ opc' = [opc EXCEPT ![c] = "get"]
    /\ UNCHANGED <<spc, ipc, held, snapAt, joinVars, loopVars, queueVars, hookVars>>

\* SharedStateRenderer._outgoing: the message built from a queued update
Outgoing(u) == [root |-> Root, src |-> u.src, new |-> u.new, old |-> u.old]

\* which queued update self._updates[context].get() hands out, and what stays
\* a queue that hands out its newest item
QueueGetNewest(q) == [item |-> q[Len(q)], rest |-> SubSeq(q, 1, Len(q) - 1)]

QueueGet(q) == [item |-> Head(q), rest |-> Tail(q)]

\* an outgoing loop that empties the queues of the other sessions as well
OutgoingGetAll(c) ==
    /\ RenderSuspended
    /\ opc[c] = "get"
    /\ updates[c] # << >>
    /\ LET g == QueueGet(updates[c]) IN
        /\ held' = [held EXCEPT ![c] = Outgoing(g.item)]
        /\ updates' = [d \in DOMAIN updates |-> IF d = c THEN g.rest ELSE << >>]
    /\ opc' = [opc EXCEPT ![c] = "send"]
    /\ UNCHANGED <<spc, ipc, sent, snapAt, snapSent, enq, joinVars, loopVars, hookVars>>

\* src, new, old, error = await self._updates[context].get()
OutgoingGet(c) ==
    /\ RenderSuspended
    /\ opc[c] = "get"
    /\ updates[c] # << >>
    /\ LET g == QueueGet(updates[c]) IN
        /\ held' = [held EXCEPT ![c] = Outgoing(g.item)]
        /\ updates' = [updates EXCEPT ![c] = g.rest]
    /\ opc' = [opc EXCEPT ![c] = "send"]
    /\ UNCHANGED <<spc, ipc, sent, snapAt, snapSent, enq, joinVars, loopVars, hookVars>>

\* AbstractRenderer._outgoing_loop: the await send(...) completes
Send(c) ==
    /\ RenderSuspended
    /\ opc[c] = "send"
    /\ sent' = [sent EXCEPT ![c] = Append(@, held[c])]
    /\ opc' = [opc EXCEPT ![c] = "get"]
    /\ UNCHANGED <<spc, ipc, held, snapAt, snapSent, joinVars, loopVars, queueVars,
                   hookVars>>

\* AbstractRenderer._incoming_loop: await recv() returns an event
Recv(c) ==
    /\ RenderSuspended
    /\ ipc[c] = "recv"
    /\ ipc' = [ipc EXCEPT ![c] = "trigger"]
    /\ UNCHANGED <<spc, opc, held, sent, snapAt, snapSent, joinVars, loopVars,
                   queueVars, hookVars>>

\* SingleStateRenderer._incoming: await layout.trigger(event) returns
Trigger(c) ==
    /\ RenderSuspended
    /\ ipc[c] = "trigger"
    /\ ipc' = [ipc EXCEPT ![c] = "recv"]
    /\ UNCHANGED <<spc, opc, held, sent, snapAt, snapSent, joinVars, loopVars,
                   queueVars, hookVars>>

\* the task group of AbstractRenderer.run when the loop `which` raises: the
\* sibling is cancelled with it and run is left with the exception to raise
GroupFailAlone(c, which) ==
    [o |-> IF which = "out" THEN "failed" ELSE opc[c],
     i |-> IF which = "in" THEN "failed" ELSE ipc[c],
     s |-> "raising"]

GroupFail(c, which) ==
    [o |-> IF which = "out" THEN "failed" ELSE "cancelled",
     i |-> IF which = "in" THEN "failed" ELSE "cancelled",
     s |-> "raising"]

\* send raises inside the outgoing loop
SendFails(c) ==
    /\ RenderSuspended
    /\ opc[c] \in {"snap", "send"}
    /\ LET g == GroupFail(c, "out") IN
        /\ opc' = [opc EXCEPT ![c] = g.o]
        /\ ipc' = [ipc EXCEPT ![c] = g.i]
        /\ spc' = [spc EXCEPT ![c] = g.s]
    /\ UNCHANGED <<held, sent, snapAt, snapSent, joinVars, loopVars, queueVars,
                   hookVars>>

\* recv or layout.trigger raises inside the incoming loop
IncomingFails(c) ==
    /\ RenderSuspended
    /\ ipc[c] \in {"recv", "trigger"}
    /\ LET g == GroupFail(c, "in") IN
        /\ opc' = [opc EXCEPT ![c] = g.o]
        /\ ipc' = [ipc EXCEPT ![c] = g.i]
        /\ spc' = [spc EXCEPT ![c] = g.s]
    /\ UNCHANGED <<held, sent, snapAt, snapSent, joinVars, loopVars, queueVars,
                   hookVars>>

\* a position of a task that is still to run
Live(s) == s \in {"spawned", "running"}
LoopCancelled(p) == IF p \in {"none", "failed"} THEN p ELSE "cancelled"

\* a failing session task that takes no other task with it
SessionRaisesAlone(c) ==
    /\ RenderSuspended
    /\ spc[c] = "raising"
    /\ tgErr' = TRUE
    /\ spc' = [spc EXCEPT ![c] = "failed"]
    /\ UNCHANGED <<tg, joining, jpc, teardowns, opc, ipc, held, sent, snapAt, snapSent,
                   loopVars, queueVars, hookVars>>

\* run raises out of the session task: the shared task group records the
\* failure and cancels its scope, that is every other session task
SessionRaises(c) ==
    /\ RenderSuspended
    /\ spc[c] = "raising"
    /\ tgErr' = TRUE
    /\ spc' = [k \in Clients |->
                 IF k = c THEN "failed"
                 ELSE IF Live(spc[k]) THEN "cancelled" ELSE spc[k]]
    /\ opc' = [k \in Clients |-> IF Live(spc[k]) THEN LoopCancelled(opc[k]) ELSE opc[k]]
    /\ ipc' = [k \in Clients |-> IF Live(spc[k]) THEN LoopCancelled(ipc[k]) ELSE ipc[k]]
    /\ UNCHANGED <<tg, joining, jpc, teardowns, held, sent, snapAt, snapSent,
                   loopVars, queueVars, hookVars>>

(***************************************************************************)
(* SharedStateRenderer.join / __aexit__                                    *)
(***************************************************************************)
\* the branch __aexit__ takes on entry: the guard is read and set in one step
\* an __aexit__ without the guard
JoinBranchUnguarded == "exit"

JoinBranch == IF ~joining THEN "exit" ELSE "wait"

\* await self.__aexit__(None, None, None), up to its first await
JoinCall(j) ==
    /\ RenderSuspended
    /\ tg # "init"
    /\ jpc[j] = "idle"
    /\ jpc' = [jpc EXCEPT ![j] = JoinBranch]
    /\ IF JoinBranch = "exit"
       THEN joining' = TRUE /\ teardowns' = teardowns + 1
       ELSE UNCHANGED <<joining, teardowns>>
    /\ UNCHANGED <<tg, tgErr, loopVars, sessVars, queueVars, hookVars>>

\* task_group.__aexit__ returns (or raises the recorded failure) once no child
\* task is left
ChildrenDone == \A c \in Clients : spc[c] \notin {"spawned", "running", "raising"}

\* self._render_task.cancel()
\* a teardown that leaves the render task alone
CancelRenderSkipped(p) == p

CancelRender(p) == IF p = "render" THEN "cancelled" ELSE p

\* the rest of __aexit__ after task_group.__aexit__: the inner finally cancels
\* the render task and sets and clears the event, which releases the callers
\* waiting on it; the outer finally resets the guard
TeardownDone(j) ==
    /\ RenderSuspended
    /\ jpc[j] = "exit"
    /\ ChildrenDone
    /\ tg' = "done"
    /\ rpc' = CancelRender(rpc)
    /\ jpc' = [k \in Joiners |->
                 IF k = j THEN (IF tgErr THEN "raised" ELSE "returned")
                 ELSE IF jpc[k] = "wait" THEN "woken" ELSE jpc[k]]
    /\ joining' = FALSE
    /\ UNCHANGED <<tgErr, teardowns, rupd, models, hist, applied, whole, sessVars,
                   queueVars, hookVars>>

\* a caller released from self._join_event.wait() runs the outer finally
JoinWake(j) ==
    /\ RenderSuspended
    /\ jpc[j] = "woken"
    /\ jpc' = [jpc EXCEPT ![j] = "released"]
    /\ joining' = FALSE
    /\ UNCHANGED <<tg, tgErr, teardowns, loopVars, sessVars, queueVars, hookVars>>

\* a caller waiting on the event is cancelled by its owner: the outer finally
\* runs as the CancelledError passes through
JoinCancel(j) ==
    /\ RenderSuspended
    /\ jpc[j] = "wait"
    /\ jpc' = [jpc EXCEPT ![j] = "cancelled"]
    /\ joining' = FALSE
    /\ UNCHANGED <<tg, tgErr, teardowns, loopVars, sessVars, queueVars, hookVars>>

(***************************************************************************)
(* Specification of the shared renderer                                    *)
(***************************************************************************)
RInit ==
    /\ tg = "init"
    /\ tgErr = FALSE
    /\ joining = FALSE
    /\ jpc = [j \in Joiners |-> "idle"]
    /\ rpc = "none"
    /\ rupd = NoUpdate
    /\ models = EmptyMap
    /\ updates = EmptyMap
    /\ spc = [c \in Clients |-> "none"]
    /\ opc = [c \in Clients |-> "none"]
    /\ ipc = [c \in Clients |-> "none"]
    /\ held = [c \in Clients |-> NoMessage]
    /\ sent = [c \in Clients |-> << >>]
    /\ hist = << >>
    /\ applied = 0
    /\ whole = EmptyMap
    /\ enq = [c \in Clients |-> << >>]
    /\ snapAt = [c \in Clients |-> 0]
    /\ snapSent = [c \in Clients |-> FALSE]
    /\ teardowns = 0
    /\ startObs = [c \in Clients |-> [started |-> FALSE, root |-> FALSE, queued |-> 0,
                                     model |-> EmptyMap]]
    /\ regAt = [c \in Clients |-> 0]

EInit0 ==
    /\ ekind = "sync"
    /\ cur = 0
    /\ epc = << >>
    /\ stop = << >>
    /\ tpc = << >>
    /\ tres = << >>
    /\ elog = << >>

SInit0 ==
    /\ value = 0
    /\ renders = 0
    /\ dlog = << >>

MInit0 ==
    /\ memo = 0
    /\ mlast = 0
    /\ mcount = 0

\* SingleStateRenderer before run is called
NInit ==
    /\ srun = "none"
    /\ sopc = "none"
    /\ sipc = "none"
    /\ srender = 0
    /\ sres = << >>
    /\ ssend = << >>
    /\ sdone = 0
    /\ srecv = 0
    /\ sevs = << >>
    /\ strig = << >>
    /\ strdone = 0

UInit0 ==
    /\ rlog = << >>
    /\ added = {}

QInit0 ==
    /\ qx = 0
    /\ qy = 0
    /\ qres = [called |-> FALSE, value |-> FALSE]

\* no constructor call has been made
NotCalled == [called |-> FALSE, raised |-> FALSE, value |-> << >>]

VInit0 ==
    /\ vargs = << >>
    /\ vres = NotCalled
    /\ vself = [allow_children |-> TRUE]

\* the initial values of the variables added after the hooks, outside their
\* own specifications
\* no render has called use_reducer
DInit0 ==
    /\ rconst = [set |-> FALSE, reducer |-> "none", id |-> 0]
    /\ rret = << >>

ExtInit0 == NInit /\ UInit0 /\ QInit0 /\ VInit0 /\ DInit0

Init == RInit /\ EInit0 /\ SInit0 /\ MInit0 /\ ExtInit0

\* the steps of the standalone render loop, with at most `limit` updates
RenderStep(limit) ==
    \/ \E u \in LayoutUpdates(Len(hist) + 1) : Len(hist) < limit /\ RenderReturns(u)
    \/ RenderMerge
    \/ RenderEvict
    \/ RenderFanout

SessionStep ==
    \E c \in Clients :
        \/ Run(c)
        \/ SessionStart(c)
        \/ OutgoingStart(c)
        \/ SendSnapshot(c)
        \/ OutgoingGet(c)
        \/ Send(c)
        \/ Recv(c)
        \/ Trigger(c)

SessionFailure ==
    \/ RenderRaises
    \/ \E c \in Clients : SendFails(c) \/ IncomingFails(c) \/ SessionRaises(c)

\* The data path: the render loop, the sessions of all clients and their
\* failures, with one caller of join().
Next ==
    \/ RenderStep(MaxUpdates)
    \/ SessionStep
    \/ SessionFailure
    \/ Start
    \/ JoinCall(FirstJoiner)
    \/ TeardownDone(FirstJoiner)

Spec == Init /\ [][Next]_vars

\* The teardown: every caller of join(), the sessions of all clients and their
\* failures, with a layout that reports at most MaxJoinUpdates updates.
JoinNext ==
    \/ RenderStep(MaxJoinUpdates)
    \/ SessionStep
    \/ SessionFailure
    \/ Start
    \/ \E j \in Joiners : JoinCall(j) \/ TeardownDone(j) \/ JoinWake(j) \/ JoinCancel(j)

\* What the event loop guarantees: a task that can run is run.  Nothing is
\* assumed of the environment: events, layout updates, failures and
\* cancellations may or may not come, and a send may or may not complete.
JoinFairness ==
    /\ \A j \in Joiners : WF_vars(TeardownDone(j)) /\ WF_vars(JoinWake(j))
    /\ \A c \in Clients :
          /\ WF_vars(SessionStart(c))
          /\ WF_vars(OutgoingStart(c))
          /\ WF_vars(OutgoingGet(c))
          /\ WF_vars(SessionRaises(c))
    /\ WF_vars(RenderMerge \/ RenderEvict \/ RenderFanout)

JoinSpec == Init /\ [][JoinNext]_vars /\ JoinFairness

(***************************************************************************)
(* Properties of the renderer                                              *)
(***************************************************************************)
Running(p) == p \in {"start", "snap", "get", "send", "recv", "trigger"}

\* the messages a client got from its queue: all it was sent but the snapshot
QueuedSent(c) == IF snapSent[c] THEN Tail(sent[c]) ELSE sent[c]

\* the shared model after the first k updates of the layout, each applied whole
RECURSIVE ModelAfter(_)
ModelAfter(k) ==
    IF k = 0 THEN EmptyMap
    ELSE EvictOld(MergeNew(ModelAfter(k - 1), hist[k].new), hist[k].old).m

\* C1: while the render loop runs, a client that was sent a snapshot got the
\* whole shared model as it was after the snapAt updates merged by then, and
\* after it exactly the updates the layout produced later, snapAt + 1,
\* snapAt + 2, ..., each once and in order.
C1_LateJoiner ==
    \A c \in Clients :
        (snapSent[c] /\ rpc # "failed") =>
            /\ sent[c][1] = Snapshot(ModelAfter(snapAt[c]))
            /\ \A i \in 1..Len(QueuedSent(c)) :
                /\ snapAt[c] + i <= Len(hist)
                /\ QueuedSent(c)[i] = Outgoing(hist[snapAt[c] + i])

\* C3: a session never has one loop ended by an error while the other loop is
\* still running, and the error is on its way out of run.
C3_FailClosed ==
    \A c \in Clients :
        /\ opc[c] = "failed" => ~Running(ipc[c]) /\ spc[c] \in {"raising", "failed"}
        /\ ipc[c] = "failed" => ~Running(opc[c]) /\ spc[c] \in {"raising", "failed"}

C3_Witness ==
    \E c, d \in Clients :
        /\ opc[c] = "failed" /\ ipc[c] = "cancelled" /\ spc[c] = "failed"
        /\ ipc[d] = "failed" /\ opc[d] = "cancelled"

\* C9: the messages a session sent after the snapshot are the updates the
\* render loop put on its queue, in that order, each once; what is still to
\* be sent is the rest of them, in the same order.
C9_QueueFifo ==
    \A c \in Clients :
        LET qs == QueuedSent(c)
            n == Len(qs) + (IF opc[c] = "send" THEN 1 ELSE 0)
        IN  /\ n <= Len(enq[c])
            /\ \A i \in 1..Len(qs) : qs[i] = Outgoing(hist[enq[c][i]])
            /\ opc[c] = "send" => held[c] = Outgoing(hist[enq[c][n]])
            /\ (c \in DOMAIN updates /\ opc[c] \notin {"failed", "cancelled"}) =>
                /\ Len(updates[c]) = Len(enq[c]) - n
                /\ \A i \in 1..Len(updates[c]) : updates[c][i] = hist[enq[c][n + i]]

C9_Witness ==
    \E c \in Clients :
        /\ snapSent[c]
        /\ Len(QueuedSent(c)) = MaxUpdates
        /\ \E i, k \in 1..Len(QueuedSent(c)) : QueuedSent(c)[i] # QueuedSent(c)[k]

\* C10: an update that is on a client's queue, or was taken from it, has been
\* merged into the shared model and its old ids evicted, and a snapshot built
\* for a client is the shared model after a whole number of updates.
C10_MergeBeforeEnqueue ==
    /\ \A c \in Clients : \A i \in 1..Len(enq[c]) : enq[c][i] <= applied
    /\ \A c \in Clients :
          (opc[c] = "snap" \/ snapSent[c]) =>
              \E k \in 0..applied :
                  (IF snapSent[c] THEN sent[c][1] ELSE held[c]) = Snapshot(ModelAfter(k))

\* C11: a session is passing, or has passed, a snapshot to send exactly when
\* its outgoing loop found its queue empty and the root in the shared model
\* when it started; the snapshot is the first message of the session, it is
\* {root, src = root, new = the shared model of that moment, old = []}, and
\* every other message of the session comes from the queue.
C11_SnapshotExactlyWhen ==
    \A c \in Clients :
        LET found == startObs[c].root /\ startObs[c].queued = 0 IN
        /\ (opc[c] = "snap" \/ snapSent[c]) => startObs[c].started /\ found
        /\ (startObs[c].started /\ found) => opc[c] \notin {"get", "send"} \/ snapSent[c]
        /\ opc[c] = "snap" => sent[c] = << >> /\ held[c] = Snapshot(startObs[c].model)
        /\ snapSent[c] => sent[c][1] = Snapshot(startObs[c].model)
        /\ Len(QueuedSent(c)) <= Len(enq[c])

\* C13: the queue of a session whose loops have exited, by failure or by
\* cancellation, is no longer registered with the renderer.
C13_QueueRemoved ==
    \A c \in Clients :
        (spc[c] \in {"failed", "cancelled"} /\ ~Running(opc[c]) /\ ~Running(ipc[c]))
            => c \notin DOMAIN updates

\* C14: every update the render loop has pulled from the layout since the
\* queue of a running client session was registered has been put on that
\* queue exactly once, except the update the loop is just working on.
C14_FanOutOnce ==
    \A c \in {d \in DOMAIN updates : Live(spc[d])} :
        \A k \in (regAt[c] + 1)..Len(hist) :
            (k = Len(hist) /\ rpc \in {"merge", "evict", "fanout"})
                \/ Cardinality({i \in 1..Len(enq[c]) : enq[c][i] = k}) = 1

\* the teardown has run to its end: the task group is left, the render loop
\* is no longer running and no session task or loop is left running
TornDown ==
    /\ tg = "done"
    /\ rpc \in {"cancelled", "failed"}
    /\ \A c \in Clients :
        /\ spc[c] \notin {"spawned", "running", "raising"}
        /\ ~Running(opc[c])
        /\ ~Running(ipc[c])

Finished(j) == jpc[j] \in {"returned", "raised", "released"}

SingleOutgoingSwapped(u) == [root |-> Root, src |-> u.src, new |-> u.new, old |-> << >>]

\* SingleStateRenderer._outgoing: the message built from a render result
SingleOutgoing(u) == [root |-> Root, src |-> u.src, new |-> u.new, old |-> u.old]

\* run: the task group spawns both loops, which run to their first await
SingleRun ==
    /\ srun = "none"
    /\ srun' = "running"
    /\ sopc' = "render"
    /\ srender' = 1
    /\ sipc' = "recv"
    /\ srecv' = 1
    /\ UNCHANGED <<sres, ssend, sdone, sevs, strig, strdone, rvars, evars, svars,
                   mvars, nvarsRest>>

\* layout.render() returns u: send(self._outgoing(...)) is called
SingleRenderReturns(u) ==
    /\ sopc = "render"
    /\ Len(sres) < MaxCycles
    /\ sres' = Append(sres, u)
    /\ ssend' = Append(ssend, SingleOutgoing(u))
    /\ sopc' = "send"
    /\ UNCHANGED <<srun, sipc, srender, sdone, srecv, sevs, strig, strdone, rvars,
                   evars, svars, mvars, nvarsRest>>

\* send returns: the loop calls layout.render() again
SingleSendReturns ==
    /\ sopc = "send"
    /\ sdone' = sdone + 1
    /\ srender' = srender + 1
    /\ sopc' = "render"
    /\ UNCHANGED <<srun, sipc, sres, ssend, srecv, sevs, strig, strdone, rvars,
                   evars, svars, mvars, nvarsRest>>

\* recv returns e: self._incoming calls layout.trigger(e)
SingleRecvReturns(e) ==
    /\ sipc = "recv"
    /\ Len(sevs) < MaxCycles
    /\ sevs' = Append(sevs, e)
    /\ strig' = Append(strig, e)
    /\ sipc' = "trigger"
    /\ UNCHANGED <<srun, sopc, srender, sres, ssend, sdone, srecv, strdone, rvars,
                   evars, svars, mvars, nvarsRest>>

\* layout.trigger returns: the loop calls recv again
SingleTriggerReturns ==
    /\ sipc = "trigger"
    /\ strdone' = strdone + 1
    /\ srecv' = srecv + 1
    /\ sipc' = "recv"
    /\ UNCHANGED <<srun, sopc, srender, sres, ssend, sdone, sevs, strig, rvars,
                   evars, svars, mvars, nvarsRest>>

\* layout.render() or send raises inside the outgoing loop, or recv or
\* layout.trigger inside the incoming loop: the task group of run cancels the
\* other loop and raises
SingleLoopFails(which) ==
    /\ IF which = "out" THEN sopc \in {"render", "send"} ELSE sipc \in {"recv", "trigger"}
    /\ LET g == GroupFail("single", which) IN
        /\ sopc' = g.o
        /\ sipc' = g.i
        /\ srun' = g.s
    /\ UNCHANGED <<srender, sres, ssend, sdone, srecv, sevs, strig, strdone, rvars,
                   evars, svars, mvars, nvarsRest>>

SingleInit == RInit /\ EInit0 /\ SInit0 /\ MInit0 /\ ExtInit0

SingleNext ==
    \/ SingleRun
    \/ \E u \in LayoutUpdates(Len(sres) + 1) : SingleRenderReturns(u)
    \/ SingleSendReturns
    \/ \E e \in Events : SingleRecvReturns(e)
    \/ SingleTriggerReturns
    \/ \E which \in {"out", "in"} : SingleLoopFails(which)

SingleSpec == SingleInit /\ [][SingleNext]_vars

(***************************************************************************)
(* Properties of the single-state renderer                                 *)
(***************************************************************************)
\* C12: for every update whose error field is set, one message is passed to
\* send, by a single-state session and by a session of the shared renderer,
\* and the message carries the error value of the update.
C12_ErrorForwarded ==
    /\ Len(ssend) = Len(sres)
    /\ \A k \in 1..Len(sres) :
          sres[k].error # "none" =>
              "error" \in DOMAIN ssend[k] /\ ssend[k].error = sres[k].error
    /\ \A c \in Clients : \A i \in 1..Len(QueuedSent(c)) :
          hist[enq[c][i]].error # "none" =>
              /\ "error" \in DOMAIN QueuedSent(c)[i]
              /\ QueuedSent(c)[i].error = hist[enq[c][i]].error

\* C20: the k-th message passed to send is {root, src, new, old} of the k-th
\* render result, and a render is started only at the start of the loop and
\* after a send has completed; the events passed to layout.trigger are the
\* events recv returned, in order, and recv is called only at the start of
\* the loop and after a trigger has completed.
C20_OneRenderOneSend ==
    /\ Len(ssend) = Len(sres)
    /\ \A k \in 1..Len(ssend) :
          ssend[k] = [root |-> Root, src |-> sres[k].src, new |-> sres[k].new,
                      old |-> sres[k].old]
    /\ sdone <= Len(ssend)
    /\ Len(sres) <= srender
    /\ srender = IF srun = "none" THEN 0 ELSE sdone + 1
    /\ strig = sevs
    /\ strdone <= Len(strig)
    /\ Len(sevs) <= srecv
    /\ srecv = IF srun = "none" THEN 0 ELSE strdone + 1

C20_Witness ==
    /\ sdone = MaxCycles
    /\ strdone = MaxCycles
    /\ sres[1] # sres[2]
    /\ sevs[1] # sevs[2]

(***************************************************************************)
(* use_effect / use_async_effect: the effect(stop) coroutine of each        *)
(* registration of one hook position.  All registrations share the one     *)
(* cleanup_func ref of the position.                                       *)
(***************************************************************************)
Event(e, k) == [ev |-> e, reg |-> k]

\* run_effect_cleanup(cleanup_func) on r = [cur, log]: the cleanup callable in
\* the ref, if any, is invoked and the ref is emptied
RunEffectCleanup(r) ==
    IF r.cur # 0
    THEN [cur |-> 0, log |-> Append(r.log, Event("cleanup", r.cur))]
    ELSE r

\* memoize(lambda: hook.add_effect(effect)): a render whose dependencies
\* changed registers the next effect; the hook creates its task and stop event
Register(k) ==
    /\ epc[k] = "unreg"
    /\ \A i \in Regs : i < k => epc[i] # "unreg"
    /\ epc' = [epc EXCEPT ![k] = "pending"]
    /\ UNCHANGED <<ekind, cur, stop, tpc, tres, elog, rvars, svars, mvars, extVars>>

\* the hook sets the stop event of a registration
StopSignal(k) ==
    /\ epc[k] \in {"pending", "waitstop"}
    /\ ~stop[k]
    /\ stop' = [stop EXCEPT ![k] = TRUE]
    /\ UNCHANGED <<ekind, cur, epc, tpc, tres, elog, rvars, svars, mvars, extVars>>

\* tasks take their first step in the order they were created
FirstPending(k) == epc[k] = "pending" /\ \A i \in Regs : i < k => epc[i] # "pending"

\* use_effect: effect(stop) up to await stop.wait(), which does not suspend
\* when the event is already set.  ret: the body returns a cleanup callable.
SyncEffect(k, ret, r) ==
    LET r1 == RunEffectCleanup(r)
        r2 == [cur |-> IF ret THEN k ELSE 0, log |-> Append(r1.log, Event("body", k))]
        r3 == RunEffectCleanup(r2)
    IN  IF stop[k]
        THEN [cur |-> r3.cur, log |-> Append(r3.log, Event("step", k)), pc |-> "done"]
        ELSE [cur |-> r2.cur, log |-> r2.log, pc |-> "waitstop"]

SyncActivate(k, ret) ==
    /\ ekind = "sync"
    /\ FirstPending(k)
    /\ LET e == SyncEffect(k, ret, [cur |-> cur, log |-> elog]) IN
        /\ cur' = e.cur
        /\ elog' = e.log
        /\ epc' = [epc EXCEPT ![k] = e.pc]
    /\ tres' = [tres EXCEPT ![k] = ret]
    /\ UNCHANGED <<ekind, stop, tpc, rvars, svars, mvars, extVars>>

\* use_effect: stop.wait() returns, run_effect_cleanup(cleanup_func)
SyncStop(k) ==
    /\ ekind = "sync"
    /\ epc[k] = "waitstop"
    /\ stop[k]
    /\ LET r == RunEffectCleanup([cur |-> cur, log |-> elog]) IN
        /\ cur' = r.cur
        /\ elog' = Append(r.log, Event("step", k))
    /\ epc' = [epc EXCEPT ![k] = "done"]
    /\ UNCHANGED <<ekind, stop, tpc, tres, rvars, svars, mvars, extVars>>

\* use_async_effect: effect(stop) up to its first suspension: the cleanup of
\* the ref, then task = asyncio.create_task(func())
AsyncActivate(k) ==
    /\ ekind = "async"
    /\ FirstPending(k)
    /\ LET r == RunEffectCleanup([cur |-> cur, log |-> elog]) IN
        /\ cur' = r.cur
        /\ elog' = r.log
    /\ tpc' = [tpc EXCEPT ![k] = "created"]
    /\ epc' = [epc EXCEPT ![k] = IF stop[k] THEN "waittask" ELSE "waitstop"]
    /\ UNCHANGED <<ekind, stop, tres, rvars, svars, mvars, extVars>>

\* the body task takes its first step
BodyStart(k) ==
    /\ tpc[k] = "created"
    /\ tpc' = [tpc EXCEPT ![k] = "running"]
    /\ elog' = Append(elog, Event("body", k))
    /\ UNCHANGED <<ekind, cur, epc, stop, tres, rvars, svars, mvars, extVars>>

\* the body task returns; ret: it returns a cleanup callable
BodyReturn(k, ret) ==
    /\ tpc[k] = "running"
    /\ tpc' = [tpc EXCEPT ![k] = "done"]
    /\ tres' = [tres EXCEPT ![k] = ret]
    /\ UNCHANGED <<ekind, cur, epc, stop, elog, rvars, svars, mvars, extVars>>

\* use_async_effect: stop.wait() returns, asyncio.wait([task], timeout) begins
AsyncStop(k) ==
    /\ ekind = "async"
    /\ epc[k] = "waitstop"
    /\ stop[k]
    /\ epc' = [epc EXCEPT ![k] = "waittask"]
    /\ UNCHANGED <<ekind, cur, stop, tpc, tres, elog, rvars, svars, mvars, extVars>>

\* an effect that does not cancel the body task it gave up on
AsyncFinishNoCancel(k, r) ==
    LET r2 == RunEffectCleanup([cur |-> r.cur, log |-> r.log])
    IN  [cur |-> r2.cur, log |-> Append(r2.log, Event("step", k)), task |-> r.task]

\* use_async_effect after asyncio.wait returned, on r = [cur, log, task]:
\* the result of a finished task is stored, the cleanup step runs, the task
\* is cancelled (which does nothing to a finished task)
AsyncFinish(k, r) ==
    LET r1 == [cur |-> IF r.task = "done" THEN (IF tres[k] THEN k ELSE 0) ELSE r.cur,
               log |-> r.log]
        r2 == RunEffectCleanup(r1)
        l3 == Append(r2.log, Event("step", k))
    IN  IF r.task = "done"
        THEN [cur |-> r2.cur, log |-> l3, task |-> "done"]
        ELSE [cur |-> r2.cur, log |-> Append(l3, Event("cancel", k)), task |-> "cancelled"]

\* asyncio.wait returns: the task is done, or shutdown_timeout has passed
AsyncWaitReturns(k) ==
    /\ ekind = "async"
    /\ epc[k] = "waittask"
    /\ LET e == AsyncFinish(k, [cur |-> cur, log |-> elog, task |-> tpc[k]]) IN
        /\ cur' = e.cur
        /\ elog' = e.log
        /\ tpc' = [tpc EXCEPT ![k] = e.task]
    /\ epc' = [epc EXCEPT ![k] = "done"]
    /\ UNCHANGED <<ekind, stop, tres, rvars, svars, mvars, extVars>>

EInit ==
    /\ ekind \in {"sync", "async"}
    /\ cur = 0
    /\ epc = [k \in Regs |-> "unreg"]
    /\ stop = [k \in Regs |-> FALSE]
    /\ tpc = [k \in Regs |-> "none"]
    /\ tres = [k \in Regs |-> FALSE]
    /\ elog = << >>

EffectInit == RInit /\ EInit /\ SInit0 /\ MInit0 /\ ExtInit0

EffectNext ==
    \E k \in Regs :
        \/ Register(k)
        \/ StopSignal(k)
        \/ \E ret \in BOOLEAN : SyncActivate(k, ret)
        \/ SyncStop(k)
        \/ AsyncActivate(k)
        \/ BodyStart(k)
        \/ \E ret \in BOOLEAN : BodyReturn(k, ret)
        \/ AsyncStop(k)
        \/ AsyncWaitReturns(k)

EffectSpec == EffectInit /\ [][EffectNext]_vars

(***************************************************************************)
(* Properties of the effect hooks                                          *)
(***************************************************************************)
At(e, k) == {i \in 1..Len(elog) : elog[i] = Event(e, k)}

\* C4: the cleanup returned by a registration is invoked at most once; once
\* the body of the next registration has started, a cleanup the registration
\* returned has been invoked, and it was invoked before that body started.
C4_CleanupBeforeNextBody ==
    \A k \in Regs :
        /\ Cardinality(At("cleanup", k)) <= 1
        /\ \A n \in At("body", k + 1) :
              /\ tres[k] => At("cleanup", k) # {}
              /\ \A i \in At("cleanup", k) : i < n

\* the same of use_effect alone
SyncCleanupBeforeNextBody == ekind = "sync" => C4_CleanupBeforeNextBody

\* C5: once the effect of use_async_effect has completed, its cleanup step has
\* run once and its body task is not running; the cleanup of a body that
\* returned one in time was invoked once, by that step; a body that did not
\* finish in time was cancelled after the cleanup step and its cleanup is
\* never invoked.
C5_AsyncStop ==
    ekind = "async" =>
        \A k \in Regs :
            /\ tpc[k] \in {"created", "running", "cancelled"} => At("cleanup", k) = {}
            /\ epc[k] = "done" =>
                /\ tpc[k] \in {"done", "cancelled"}
                /\ Cardinality(At("step", k)) = 1
                /\ (tpc[k] = "done" /\ tres[k]) =>
                      \E i \in At("cleanup", k) :
                          At("cleanup", k) = {i} /\ At("step", k) = {i + 1}
                /\ tpc[k] = "cancelled" =>
                      \E i \in At("step", k) : At("cancel", k) = {i + 1}

C5_Witness ==
    /\ ekind = "async"
    /\ \E k, m \in Regs :
        /\ epc[k] = "done" /\ tpc[k] = "cancelled"
        /\ epc[m] = "done" /\ tpc[m] = "done" /\ tres[m]

(***************************************************************************)
(* Python values.  type: the value's type; val: its content; id: the       *)
(* object's identity, "-" for values of immutable builtin types, whose     *)
(* identity no comparison below looks at.                                  *)
(***************************************************************************)
Val(t, v, i) == [type |-> t, val |-> v, id |-> i]

\* x == y for two values of the same type: numbers by value (nan equals
\* nothing), text, binary sequences and containers by content, instances of
\* a plain class by identity
PyEq(x, y) ==
    CASE x.type \in {"int", "float", "complex"} -> x.val = y.val /\ x.val # "nan"
      [] x.type \in {"str", "bytes", "bytearray", "memoryview", "list", "tuple", "dict"} ->
            x.val = y.val
      [] OTHER -> x.id = y.id

\* strictly_equal(x, y): val of a lambda or locally defined function stands
\* for its __qualname__ and the compared attributes of its __code__
StrictlyEqual(x, y) ==
    IF x.type # y.type THEN FALSE
    ELSE IF x.type = "lambda" THEN x.val = y.val
    ELSE PyEq(x, y)

(***************************************************************************)
(* use_state: one _CurrentState cell                                       *)
(***************************************************************************)
StateValues ==
    { Val("int", "0", "-"), Val("int", "1", "-"), Val("float", "1", "-"),
      Val("float", "nan", "-"), Val("list", "[0]", "p"), Val("list", "[0]", "q"),
      Val("object", "", "p"), Val("object", "", "q") }

\* callables handed to dispatch: keep returns its argument, copy returns a
\* new list with the content of a list argument, reset returns 0
Updaters == { Val("updater", n, "-") : n \in {"keep", "copy", "reset"} }

Callable(x) == x.type \in {"updater", "lambda"}

Call(f, v) ==
    CASE f.val = "keep" -> v
      [] f.val = "copy" -> IF v.type = "list" THEN Val("list", v.val, "q") ELSE v
      [] OTHER -> Val("int", "0", "-")

\* a dispatch that stores and schedules a render whatever the comparison says
dispatchUnconditional(cell, new) ==
    [value |-> IF Callable(new) THEN Call(new, cell.value) ELSE new,
     renders |-> cell.renders + 1]

\* _CurrentState.dispatch(new) on cell = [value, renders]
dispatch(cell, new) ==
    LET next_value == IF Callable(new) THEN Call(new, cell.value) ELSE new
    IN  IF ~StrictlyEqual(next_value, cell.value)
        THEN [value |-> next_value, renders |-> cell.renders + 1]
        ELSE cell

Dispatch(new) ==
    /\ Len(dlog) < MaxDispatches
    /\ LET c == dispatch([value |-> value, renders |-> renders], new) IN
        /\ value' = c.value
        /\ renders' = c.renders
    /\ dlog' = Append(dlog, [new |-> new, stored |-> value])
    /\ UNCHANGED <<rvars, evars, mvars, extVars>>

\* _CurrentState.__init__: the initial value
SInit ==
    /\ value \in StateValues
    /\ renders = 0
    /\ dlog = << >>

StateInit == RInit /\ EInit0 /\ SInit /\ MInit0 /\ ExtInit0
StateNext == \E new \in StateValues \cup Updaters : Dispatch(new)
StateSpec == StateInit /\ [][StateNext]_vars

\* what entry e of the dispatch log asked to store, and whether that differs
Resolved(e) == IF Callable(e.new) THEN Call(e.new, e.stored) ELSE e.new
Accepted(e) == ~StrictlyEqual(Resolved(e), e.stored)
AcceptedAt == {i \in 1..Len(dlog) : Accepted(dlog[i])}
LastAccepted == CHOOSE i \in AcceptedAt : \A n \in AcceptedAt : n <= i

\* C6: the stored value is that of the most recent dispatch whose resolved
\* value was not strictly equal to the value stored when it was dispatched
\* (the initial value if there is none), and a render was scheduled exactly
\* once for each such dispatch.
C6_DispatchStores ==
    Len(dlog) > 0 =>
        /\ value = IF AcceptedAt = {} THEN dlog[1].stored ELSE Resolved(dlog[LastAccepted])
        /\ renders = Cardinality(AcceptedAt)

C6_Witness ==
    /\ Len(dlog) = MaxDispatches
    /\ \E i, n \in 1..Len(dlog) :
        /\ i < n
        /\ Accepted(dlog[i])
        /\ ~Accepted(dlog[n])
        /\ Resolved(dlog[n]) # dlog[n].stored

(***************************************************************************)
(* use_memo: one _Memo of one hook position over successive renders        *)
(***************************************************************************)
DepValues ==
    { Val("int", "1", "-"), Val("float", "1", "-"),
      Val("list", "[0]", "p"), Val("list", "[0]", "q") }

DepSeqs == UNION { [1..n -> DepValues] : n \in 0..MaxDeps }

\* the dependencies argument: None, a sequence, or the ellipsis
Dependencies ==
    {[kind |-> "none", items |-> << >>], [kind |-> "ellipsis", items |-> << >>]}
        \cup {[kind |-> "seq", items |-> d] : d \in DepSeqs}

\* the function argument: a plain function with the contents of its closure
\* cells, or some other callable
Functions ==
    {[isFunction |-> FALSE, closure |-> << >>]}
        \cup {[isFunction |-> TRUE, closure |-> d] : d \in DepSeqs}

\* _try_to_infer_closure_values(func, values)
InferClosureValues(func, values) ==
    IF values.kind = "ellipsis"
    THEN IF func.isFunction
         THEN [kind |-> "seq", items |-> func.closure]
         ELSE [kind |-> "none", items |-> << >>]
    ELSE values

\* the comparison of use_memo: the lengths differ or some pair of entries is
\* not strictly equal
DepsChanged(stored, given) ==
    \/ Len(stored) # Len(given)
    \/ \E i \in 1..Len(given) : ~StrictlyEqual(given[i], stored[i])

\* setup(function) of a changed memo m: current_value = memo.value = function()
Setup(m, result) ==
    IF result.raises
    THEN [memo |-> m, called |-> TRUE, raised |-> TRUE, returned |-> 0]
    ELSE [memo |-> [m EXCEPT !.empty = FALSE, !.value = result.value],
          called |-> TRUE, raised |-> FALSE, returned |-> result.value]

\* the dependencies use_memo stores
StoredDeps(deps) == IF deps.kind = "none" THEN [kind |-> "seq", items |-> << >>] ELSE deps

\* a use_memo that compares entry by entry only, as far as both lists go
use_memoZipOnly(m, func, dependencies, result) ==
    LET deps == InferClosureValues(func, dependencies)
        changed ==
            \/ m.empty
            \/ deps.kind = "none"
            \/ \E i \in 1..Len(deps.items) :
                   i <= Len(m.deps.items) /\ ~StrictlyEqual(deps.items[i], m.deps.items[i])
    IN  IF changed
        THEN Setup([m EXCEPT !.deps = StoredDeps(deps)], result)
        ELSE [memo |-> m, called |-> FALSE, raised |-> FALSE, returned |-> m.value]

\* use_memo(function, dependencies) on memo m, where the function, when called,
\* ends as result says (it raises, or returns result.value): the new memo,
\* whether the function was called, whether use_memo raised, and the value it
\* returned
use_memo(m, func, dependencies, result) ==
    LET deps == InferClosureValues(func, dependencies)
        changed ==
            IF m.empty THEN TRUE
            ELSE IF deps.kind = "none" THEN TRUE
            ELSE DepsChanged(m.deps.items, deps.items)
    IN  IF changed
        THEN Setup([m EXCEPT !.deps = StoredDeps(deps)], result)
        ELSE [memo |-> m, called |-> FALSE, raised |-> FALSE, returned |-> m.value]

\* one render: the function of render n returns n, or raises
Render(func, dependencies, raises) ==
    /\ mcount < MaxRenders
    /\ LET r == use_memo(memo, func, dependencies,
                         [raises |-> raises, value |-> mcount + 1]) IN
        /\ memo' = r.memo
        /\ mlast' = [given |-> InferClosureValues(func, dependencies), before |-> memo,
                     called |-> r.called, raised |-> r.raised, returned |-> r.returned]
    /\ mcount' = mcount + 1
    /\ UNCHANGED <<rvars, evars, svars, extVars>>

\* _Memo(): no value, no deps
MInit ==
    /\ memo = [empty |-> TRUE, value |-> 0, deps |-> [kind |-> "unset", items |-> << >>]]
    /\ mlast = [given |-> [kind |-> "none", items |-> << >>], before |-> memo,
                called |-> FALSE, raised |-> FALSE, returned |-> 0]
    /\ mcount = 0

MemoInit == RInit /\ EInit0 /\ SInit0 /\ MInit /\ ExtInit0

MemoNext ==
    \E raises \in BOOLEAN :
        \/ \E d \in Dependencies \ {[kind |-> "ellipsis", items |-> << >>]} :
               Render([isFunction |-> TRUE, closure |-> << >>], d, raises)
        \/ \E f \in Functions : Render(f, [kind |-> "ellipsis", items |-> << >>], raises)

MemoSpec == MemoInit /\ [][MemoNext]_vars

\* what the three parts of the claim share: when the function is called, and
\* what is returned when it is not
MemoRecomputes ==
    /\ mlast.called <=>
          \/ mlast.before.empty
          \/ mlast.given.kind = "none"
          \/ DepsChanged(mlast.before.deps.items, mlast.given.items)
    /\ mlast.raised => mlast.called
    /\ (mlast.called /\ ~mlast.raised) =>
          mlast.returned = mcount /\ memo.value = mcount /\ ~memo.empty
    /\ ~mlast.called => mlast.returned = mlast.before.value /\ memo = mlast.before

\* C7 as stated: the function is recomputed exactly when no value is stored,
\* the given dependencies are None, or they differ from the stored ones in
\* length or in an entry that is not strictly equal; otherwise the stored
\* value is returned and the function is not called; after a recompute the
\* stored dependencies equal the dependencies given.
C7_StoredDepsEqualGiven ==
    mcount > 0 =>
        /\ MemoRecomputes
        /\ mlast.called => memo.deps = mlast.given

\* C7 amended: as above, but after a recompute with dependencies None the
\* stored dependencies are the empty sequence.
C7_StoredDepsOrEmpty ==
    mcount > 0 =>
        /\ MemoRecomputes
        /\ mlast.called =>
              memo.deps = IF mlast.given.kind = "none"
                          THEN [kind |-> "seq", items |-> << >>]
                          ELSE mlast.given

C7_Witness ==
    /\ mcount = MaxRenders
    /\ mlast.called
    /\ ~mlast.before.empty
    /\ mlast.given.kind = "none"
    /\ mlast.before.deps.items # << >>
    /\ memo.deps = [kind |-> "seq", items |-> << >>]


(***************************************************************************)
(* use_effect / use_async_effect over successive renders: the memoized     *)
(* registration of the effect                                              *)
(***************************************************************************)
\* the function argument None of use_memo(dependencies=dependencies)
NoFunction == [isFunction |-> FALSE, closure |-> << >>]

\* a use_effect that hands no dependencies to use_memo
use_effectUnmemoized(m, function, dependencies) ==
    use_memo(m, NoFunction, [kind |-> "none", items |-> << >>],
             [raises |-> FALSE, value |-> 0])

\* use_effect(function, dependencies) with memo m of its use_memo position:
\* the dependencies are inferred from the effect function, then
\* memoize(lambda: hook.add_effect(effect)) calls add_effect, which returns
\* None, if use_memo judges them changed; called says whether it was called
use_effect(m, function, dependencies) ==
    use_memo(m, NoFunction, InferClosureValues(function, dependencies),
             [raises |-> FALSE, value |-> 0])

\* one render of the component
RenderEffect(function, dependencies) ==
    /\ Len(rlog) < MaxRenders
    /\ LET r == use_effect(memo, function, dependencies) IN
        /\ memo' = r.memo
        /\ added' = IF r.called THEN added \cup {Len(rlog) + 1} ELSE added
    /\ rlog' = Append(rlog, InferClosureValues(function, dependencies))
    /\ UNCHANGED <<mlast, mcount, rvars, evars, svars, uvarsRest>>

EffectRenderInit == RInit /\ EInit0 /\ SInit0 /\ MInit /\ ExtInit0

EffectRenderNext ==
    \/ \E d \in Dependencies \ {[kind |-> "ellipsis", items |-> << >>]} :
           RenderEffect([isFunction |-> TRUE, closure |-> << >>], d)
    \/ \E f \in Functions : RenderEffect(f, [kind |-> "ellipsis", items |-> << >>])

EffectRenderSpec == EffectRenderInit /\ [][EffectRenderNext]_vars

\* the dependencies stored by the last registration before render n
StoredBefore(n) ==
    LET earlier == {k \in added : k < n} IN
    IF earlier = {} THEN << >>
    ELSE LET last == CHOOSE k \in earlier : \A i \in earlier : i <= k
         IN  IF rlog[last].kind = "none" THEN << >> ELSE rlog[last].items

\* C15: add_effect is called in the first render and in exactly those later
\* renders whose dependencies are None or differ, in length or in an entry
\* that is not strictly equal, from the dependencies of the last render in
\* which it was called.
C15_RegisteredOnChange ==
    \A n \in 1..Len(rlog) :
        n \in added <=>
            \/ n = 1
            \/ rlog[n].kind = "none"
            \/ DepsChanged(StoredBefore(n), rlog[n].items)

C15_Witness ==
    /\ Len(rlog) = MaxRenders
    /\ 1 \in added
    /\ \E n \in 2..Len(rlog) :
        /\ n \notin added
        /\ rlog[n].kind = "seq"
        /\ rlog[n].items # << >>
        /\ rlog[n].items # rlog[n - 1].items


(***************************************************************************)
(* strictly_equal applied to two values                                    *)
(***************************************************************************)
\* the arguments: no two of them are the same object unless they are the
\* same record here
EqValues ==
    { Val("int", "0", "-"), Val("int", "1", "-"), Val("float", "1", "-"),
      Val("float", "nan", "-"), Val("complex", "1", "-"),
      Val("str", "a", "-"), Val("str", "b", "-"), Val("bytes", "a", "-"),
      Val("bytearray", "a", "p"), Val("bytearray", "a", "q"),
      Val("memoryview", "a", "p"), Val("memoryview", "b", "q"),
      Val("list", "[0]", "p"), Val("list", "[0]", "q"), Val("list", "[1]", "r"),
      Val("dict", "{}", "p"), Val("dict", "{}", "q"),
      Val("object", "", "p"), Val("object", "", "q"),
      Val("lambda", "f", "p"), Val("lambda", "f", "q"), Val("lambda", "g", "r") }

Compare ==
    /\ ~qres.called
    /\ qres' = [called |-> TRUE, value |-> StrictlyEqual(qx, qy)]
    /\ UNCHANGED <<qx, qy, rvars, evars, svars, mvars, qvarsRest>>

QInit ==
    /\ qx \in EqValues
    /\ qy \in EqValues
    /\ qres = [called |-> FALSE, value |-> FALSE]

EqInit == RInit /\ EInit0 /\ SInit0 /\ MInit0 /\ NInit /\ UInit0 /\ VInit0 /\ DInit0 /\ QInit
EqNext == Compare
EqSpec == EqInit /\ [][EqNext]_vars

\* the types the documentation of strictly_equal lists as compared by value
ValueTypes == {"int", "float", "complex", "str", "bytes", "bytearray", "memoryview"}

\* C16: values of different type are never strictly equal; values of a type
\* compared by value are strictly equal iff their values are equal; values
\* of any other type, lambdas and local functions aside, are strictly equal
\* iff they are the same object.
C16_IdentityForOthers ==
    (qres.called /\ (qx.type # "lambda" \/ qy.type # "lambda")) =>
        qres.value =
            IF qx.type # qy.type THEN FALSE
            ELSE IF qx.type \in ValueTypes THEN qx.val = qy.val /\ qx.val # "nan"
            ELSE qx = qy



(***************************************************************************)
(* The values handed to the node constructor                               *)
(***************************************************************************)
SeqsUpTo(S, n) == UNION {[1..k -> S] : k \in 0..n}

\* a positional argument or child: kind is its Python type (str, int, a
\* Mapping that is not a dict, dict, list, tuple), val its content when it
\* is a leaf, items its elements when it is iterable, attrs its entries when
\* it is a dict
Child(kind, val, items, attrs) ==
    [kind |-> kind, val |-> val, items |-> items, attrs |-> attrs]

Text(s) == Child("str", s, << >>, EmptyMap)
Number(s) == Child("int", s, << >>, EmptyMap)
MappingChild(s) == Child("Mapping", s, << >>, EmptyMap)
ListOf(items) == Child("list", "", items, EmptyMap)
TupleOf(items) == Child("tuple", "", items, EmptyMap)

\* the kinds that have __iter__ and are neither str nor Mapping
IterableKinds == {"list", "tuple"}

Leaves == {Text("x"), Text("yz"), MappingChild("m"), Number("7")}

\* lists of leaves, and a few deeper nestings
Lists1 == {ListOf(s) : s \in SeqsUpTo(Leaves, MaxLen)}

DeepSamples ==
    { ListOf(<<ListOf(<<Text("x"), ListOf(<<Text("yz")>>)>>), Number("7")>>),
      TupleOf(<<Text("yz"), TupleOf(<<ListOf(<< >>), MappingChild("m")>>),
                Text("x")>>) }

FlattenInputs == SeqsUpTo(Leaves \cup Lists1 \cup DeepSamples, MaxLen)

(***************************************************************************)
(* _is_single_child and _flatten_children                                  *)
(***************************************************************************)
is_single_child(child) ==
    child.kind \in {"str", "Mapping", "dict"} \/ child.kind \notin IterableKinds

RECURSIVE flatten_childrenShallow(_)
flatten_childrenShallow(children) ==
    IF children = << >> THEN << >>
    ELSE LET child == Head(children) IN
         (IF is_single_child(child) THEN <<child>> ELSE child.items)
             \o flatten_childrenShallow(Tail(children))

RECURSIVE flatten_children(_)
flatten_children(children) ==
    IF children = << >> THEN << >>
    ELSE LET child == Head(children) IN
         (IF is_single_child(child) THEN <<child>>
          ELSE flatten_children(child.items))
             \o flatten_children(Tail(children))

FlattenCall ==
    /\ ~vres.called
    /\ vres' = [called |-> TRUE, raised |-> FALSE,
                value |-> flatten_children(vargs)]
    /\ UNCHANGED <<vargs, vself, rvars, evars, svars, mvars, vvarsRest>>

FlattenInit ==
    /\ RInit /\ EInit0 /\ SInit0 /\ MInit0 /\ NInit /\ UInit0 /\ QInit0 /\ DInit0
    /\ vargs \in FlattenInputs
    /\ vres = NotCalled
    /\ vself = [allow_children |-> TRUE]

FlattenNext == FlattenCall
FlattenSpec == FlattenInit /\ [][FlattenNext]_vars

\* the number of single children in a forest of children, and the k-th of
\* them counting from the left
RECURSIVE LeafCount(_)
LeafCount(children) ==
    IF children = << >> THEN 0
    ELSE LET child == Head(children) IN
         (IF child.kind \in IterableKinds THEN LeafCount(child.items) ELSE 1)
             + LeafCount(Tail(children))

RECURSIVE LeafAt(_, _)
LeafAt(children, k) ==
    LET child == Head(children)
        here == IF child.kind \in IterableKinds THEN LeafCount(child.items) ELSE 1
    IN  IF k > here THEN LeafAt(Tail(children), k - here)
        ELSE IF child.kind \in IterableKinds THEN LeafAt(child.items, k)
        ELSE child

\* C18: the flattened list holds exactly the single children of the nesting,
\* the k-th element being the k-th single child from the left, depth first;
\* text and mappings appear whole, and no element is a nested iterable.
C18_FlatInOrder ==
    vres.called =>
        /\ Len(vres.value) = LeafCount(vargs)
        /\ \A k \in 1..Len(vres.value) :
            /\ vres.value[k] = LeafAt(vargs, k)
            /\ vres.value[k].kind \notin IterableKinds

\* a nesting three deep with text of two characters and a mapping has been
\* flattened
C18_Witness ==
    /\ vres.called
    /\ \E i \in 1..Len(vargs) : vargs[i] \in DeepSamples
    /\ \E i \in 1..Len(vargs) : vargs[i] \in Lists1 /\ Len(vargs[i].items) = MaxLen
    /\ \E k \in 1..Len(vres.value) : vres.value[k] = MappingChild("m")
    /\ \E k \in 1..Len(vres.value) : vres.value[k] = Text("yz")



(***************************************************************************)
(* Vdom.__call__ with the default constructor                              *)
(***************************************************************************)
\* attribute names, as their characters
KeyName == <<"k", "e", "y">>
AttrNames ==
    { KeyName, <<"i", "d">>, <<"o", "n", "C", "l", "i", "c", "k">>,
      <<"o", "n", "A">>, <<"o", "n", "c", "l", "i", "c", "k">>,
      <<"o", "n", "A", "-", "b">> }

UpperCase ==
    {"A", "B", "C", "D", "E", "F", "G", "H", "I", "J", "K", "L", "M",
     "N", "O", "P", "Q", "R", "S", "T", "U", "V", "W", "X", "Y", "Z"}
LowerCase ==
    {"a", "b", "c", "d", "e", "f", "g", "h", "i", "j", "k", "l", "m",
     "n", "o", "p", "q", "r", "s", "t", "u", "v", "w", "x", "y", "z"}
Digits == {"0", "1", "2", "3", "4", "5", "6", "7", "8", "9"}
WordChars == UpperCase \cup LowerCase \cup Digits \cup {"_"}

\* EVENT_ATTRIBUTE_PATTERN.match(k) for the pattern ^on[A-Z]\w+
EVENT_ATTRIBUTE_PATTERN(k) ==
    /\ Len(k) >= 4
    /\ k[1] = "o"
    /\ k[2] = "n"
    /\ k[3] \in UpperCase
    /\ k[4] \in WordChars

\* attribute values: kind is the Python type
AttrVal(kind, val) == [kind |-> kind, val |-> val]
AttrValues ==
    { AttrVal("function", "f"), AttrVal("EventHandler", "h"), AttrVal("str", "a"),
      AttrVal("InlineJavaScript", "j"), AttrVal("int", "1") }

AttrDicts ==
    UNION { [D -> AttrValues] :
                D \in {S \in SUBSET AttrNames : Cardinality(S) <= MaxLen} }

DictOf(attrs) == Child("dict", "", << >>, attrs)

VdomChildren ==
    SeqsUpTo({Text("x"), Number("7"), ListOf(<<Text("x"), Text("yz")>>),
              DictOf(EmptyMap)}, MaxLen)

VdomInputs ==
    VdomChildren \cup {<<DictOf(a)>> \o cs : a \in AttrDicts, cs \in VdomChildren}

separate_attributes_and_children(values) ==
    IF values = << >> THEN [attributes |-> EmptyMap, children |-> << >>]
    ELSE IF values[1].kind = "dict"
         THEN [attributes |-> values[1].attrs,
               children |-> flatten_children(Tail(values))]
         ELSE [attributes |-> EmptyMap, children |-> flatten_children(values)]

IsCallable(v) == v.kind = "function"
IsStr(v) == v.kind \in {"str", "InlineJavaScript"}

\* the classification without the test that the value is text
separate_attributes_handlers_and_inline_javascriptAnyValue(attributes) ==
    LET handlers == {k \in DOMAIN attributes :
                        IsCallable(attributes[k]) \/ attributes[k].kind = "EventHandler"}
        inline == {k \in DOMAIN attributes \ handlers :
                        \/ EVENT_ATTRIBUTE_PATTERN(k)
                        \/ attributes[k].kind = "InlineJavaScript"}
    IN  [attributes |-> [k \in (DOMAIN attributes \ handlers) \ inline |-> attributes[k]],
         event_handlers |-> [k \in handlers |-> AttrVal("EventHandler", attributes[k].val)],
         inline_javascript |-> [k \in inline |-> AttrVal("InlineJavaScript", attributes[k].val)]]

separate_attributes_handlers_and_inline_javascript(attributes) ==
    LET handlers == {k \in DOMAIN attributes :
                        IsCallable(attributes[k]) \/ attributes[k].kind = "EventHandler"}
        inline == {k \in DOMAIN attributes \ handlers :
                        \/ EVENT_ATTRIBUTE_PATTERN(k) /\ IsStr(attributes[k])
                        \/ attributes[k].kind = "InlineJavaScript"}
    IN  [attributes |-> [k \in (DOMAIN attributes \ handlers) \ inline |-> attributes[k]],
         event_handlers |-> [k \in handlers |-> AttrVal("EventHandler", attributes[k].val)],
         inline_javascript |-> [k \in inline |-> AttrVal("InlineJavaScript", attributes[k].val)]]

\* one entry of the node when the value is not empty
Entry(name, present, v) == IF present THEN name :> v ELSE EmptyMap

VdomCall ==
    /\ ~vres.called
    /\ LET sep == separate_attributes_and_children(vargs)
           hasKey == KeyName \in DOMAIN sep.attributes
           cls == separate_attributes_handlers_and_inline_javascript(sep.attributes)
           result ==
               Entry("key", hasKey, IF hasKey THEN sep.attributes[KeyName] ELSE 0)
               @@ Entry("children", sep.children # << >>, sep.children)
               @@ Entry("attributes", DOMAIN cls.attributes # {}, cls.attributes)
               @@ Entry("eventHandlers", DOMAIN cls.event_handlers # {}, cls.event_handlers)
               @@ Entry("inlineJavaScript", DOMAIN cls.inline_javascript # {},
                        cls.inline_javascript)
               @@ Entry("tagName", TRUE, "div")
       IN  vres' = IF sep.children # << >> /\ ~vself.allow_children
                   THEN [called |-> TRUE, raised |-> TRUE, value |-> << >>]
                   ELSE [called |-> TRUE, raised |-> FALSE, value |-> result]
    /\ UNCHANGED <<vargs, vself, rvars, evars, svars, mvars, vvarsRest>>

VdomInit ==
    /\ RInit /\ EInit0 /\ SInit0 /\ MInit0 /\ NInit /\ UInit0 /\ QInit0 /\ DInit0
    /\ vargs \in VdomInputs
    /\ vself \in [allow_children : BOOLEAN]
    /\ vres = NotCalled

VdomNext == VdomCall
VdomSpec == VdomInit /\ [][VdomNext]_vars

\* a field of the constructed node, empty when the node omits it
NodeField(name) == IF name \in DOMAIN vres.value THEN vres.value[name] ELSE EmptyMap

\* the attributes mapping given to the call, when there is one
GivenAttributes == IF vargs # << >> /\ vargs[1].kind = "dict" THEN vargs[1].attrs ELSE EmptyMap



\* C17: when the attributes mapping A of the call contains "key", the node's
\* key is A["key"], the node's attributes are the plain entries of A without
\* "key", and the node's children are the children given.
C17_KeyRemoved ==
    (vres.called /\ ~vres.raised /\ KeyName \in DOMAIN GivenAttributes) =>
        LET plain == separate_attributes_handlers_and_inline_javascript(
                         GivenAttributes).attributes
        IN  /\ NodeField("key") = GivenAttributes[KeyName]
            /\ NodeField("attributes") =
                   [k \in DOMAIN plain \ {KeyName} |-> plain[k]]
            /\ NodeField("children") = flatten_children(Tail(vargs))

\* names that are `on` followed by an uppercase letter, and names that are
\* `on`, an uppercase letter and at least one more word character
OnUpper(k) == Len(k) >= 3 /\ k[1] = "o" /\ k[2] = "n" /\ k[3] \in UpperCase
OnUpperWord(k) == OnUpper(k) /\ Len(k) >= 4 /\ k[4] \in WordChars

\* the three parts of the node partition the given attributes: the event
\* handlers are the entries with a callable or wrapped-handler value, the
\* inline scripts the other entries that have an event name and a text
\* value or an already wrapped value, the attributes the rest
Classified(eventNames) ==
    (vres.called /\ ~vres.raised) =>
        LET A == GivenAttributes
            attrs == DOMAIN NodeField("attributes")
            handlers == DOMAIN NodeField("eventHandlers")
            inline == DOMAIN NodeField("inlineJavaScript")
        IN  /\ attrs \cup handlers \cup inline = DOMAIN A
            /\ attrs \cap handlers = {}
            /\ attrs \cap inline = {}
            /\ handlers \cap inline = {}
            /\ \A k \in DOMAIN A :
                /\ k \in handlers <=> A[k].kind \in {"function", "EventHandler"}
                /\ k \in inline <=>
                    /\ k \notin handlers
                    /\ \/ k \in eventNames /\ A[k].kind = "str"
                       \/ A[k].kind = "InlineJavaScript"
                /\ k \in attrs => NodeField("attributes")[k] = A[k]

\* C19 (as stated): the classification partitions the input, with an event
\* name being `on` followed by an uppercase letter.
C19_OnUpperIsEventName == Classified({k \in AttrNames : OnUpper(k)})

\* C19: the classification partitions the input, with an event name being
\* `on`, an uppercase letter and at least one further word character.
C19_Classification == Classified({k \in AttrNames : OnUpperWord(k)})

\* a text value under onClick became an inline script while a text value
\* under onA stayed an attribute
C19_Witness ==
    /\ vres.called
    /\ ~vres.raised
    /\ <<"o", "n", "A">> \in DOMAIN NodeField("attributes")
    /\ GivenAttributes[<<"o", "n", "A">>].kind = "str"
    /\ <<"o", "n", "C", "l", "i", "c", "k">> \in DOMAIN NodeField("inlineJavaScript")
    /\ GivenAttributes[<<"o", "n", "C", "l", "i", "c", "k">>].kind = "str"



(***************************************************************************)
(* The shared model after a sequence of updates                            *)
(***************************************************************************)
\* the updates among the first n that put id i and after which no update of
\* the first n, the putting one included, lists i as old
LivePuts(i, n) ==
    {k \in 1..n :
        /\ i \in DOMAIN hist[k].new
        /\ \A m \in k..n : \A x \in 1..Len(hist[m].old) : hist[m].old[x] # i}

Latest(S) == CHOOSE k \in S : \A m \in S : m <= k

\* C21: once every update pulled from the layout has been merged and
\* evicted, the shared model holds exactly the ids some update put and no
\* update from that one on evicted, each with the node of the latest such
\* update.
C21_ModelIsFold ==
    applied = Len(hist) =>
        /\ DOMAIN models = {i \in Ids : LivePuts(i, applied) # {}}
        /\ \A i \in DOMAIN models : models[i] = hist[Latest(LivePuts(i, applied))].new[i]

\* two updates were processed, one of them listing "a" as new and as old,
\* and only the root is left
C21_Witness ==
    /\ applied = MaxUpdates
    /\ Len(hist) = MaxUpdates
    /\ \E k \in 1..Len(hist) :
        /\ "a" \in DOMAIN hist[k].new
        /\ \E x \in 1..Len(hist[k].old) : hist[k].old[x] = "a"
    /\ DOMAIN models = {Root}



\* C22: the shared model changes only in a step of the render loop's merge
\* or eviction; a registered queue stays registered, and its contents change
\* only when the render loop's fan-out appends to it or when the outgoing
\* loop of its own session takes its head, which leaves every other queue as
\* it was.  Steps of run, join, the incoming loops and the other outgoing
\* loops change neither.
C22_WritersAndReaders ==
    [][ /\ models' # models => rpc \in {"merge", "evict"}
        /\ \A c \in DOMAIN updates :
            /\ c \in DOMAIN updates'
            /\ updates'[c] # updates[c] =>
                \/ rpc = "fanout" /\ updates'[c] = Append(updates[c], rupd)
                \/ /\ opc[c] = "get"
                   /\ opc'[c] = "send"
                   /\ updates'[c] = Tail(updates[c])
                   /\ \A d \in DOMAIN updates \ {c} : updates'[d] = updates[d] ]_vars

\* one session has sent a queued update while the queue of the other still
\* holds it, an event is being handled and join has been called
C22_Witness ==
    /\ \E c \in Clients, d \in Clients :
        /\ c # d
        /\ d \in DOMAIN updates
        /\ updates[d] # << >>
        /\ \E k \in 1..Len(sent[c]) : sent[c][k] = Outgoing(updates[d][1])
        /\ ipc[c] = "trigger"
    /\ \E j \in Joiners : jpc[j] = "exit"
    /\ DOMAIN models # {}



(***************************************************************************)
(* use_reducer: the state cell of use_state and the dispatcher made by     *)
(* _create_dispatcher, kept by _use_const                                  *)
(***************************************************************************)
ReducerStates ==
    { Val("int", "0", "-"), Val("int", "1", "-"), Val("int", "2", "-"),
      Val("list", "[0]", "p"), Val("list", "[0]", "q") }

ReducerActions == {"inc", "keep", "fresh", "zero"}
Reducers == {"step", "two"}

NextDigit(d) == CASE d = "0" -> "1" [] d = "1" -> "2" [] OTHER -> "0"

\* reducer(last_state, action): "step" counts modulo three on inc, returns
\* its argument on keep, a newly built list [0] on fresh and 0 on zero; "two"
\* returns 2 whatever the action
Reduce(reducer, last_state, action) ==
    IF reducer = "two" THEN Val("int", "2", "-")
    ELSE CASE action = "inc" ->
                IF last_state.type = "int"
                THEN Val("int", NextDigit(last_state.val), "-")
                ELSE Val("int", "0", "-")
           [] action = "keep" -> last_state
           [] action = "fresh" ->
                Val("list", "[0]", IF last_state.id = "p" THEN "q" ELSE "p")
           [] OTHER -> Val("int", "0", "-")

\* a dispatcher that stores the reducer's result and schedules a render
\* whatever the comparison says
create_dispatcherUnconditional(cell, reducer, action) ==
    [value |-> Reduce(reducer, cell.value, action), renders |-> cell.renders + 1]

\* the dispatch made by _create_dispatcher(reducer, set_state), called with
\* action: set_state(lambda last_state: reducer(last_state, action)), where
\* set_state is the dispatch of the state cell
create_dispatcher(cell, reducer, action) ==
    LET next_value == Reduce(reducer, cell.value, action)
    IN  IF ~StrictlyEqual(next_value, cell.value)
        THEN [value |-> next_value, renders |-> cell.renders + 1]
        ELSE cell

\* one render calling use_reducer(reducer, initial_value): the first one
\* makes the dispatcher, every one returns the stored state and the
\* dispatcher kept in the slot
use_reducer(slot, reducer, n) ==
    IF slot.set THEN slot ELSE [set |-> TRUE, reducer |-> reducer, id |-> n]

ReducerRender(reducer) ==
    /\ Len(rret) < MaxRenders
    /\ LET slot == use_reducer(rconst, reducer, Len(rret) + 1) IN
        /\ rconst' = slot
        /\ rret' = Append(rret, [state |-> value, dispatcher |-> slot.id])
    /\ UNCHANGED <<rvars, evars, svars, mvars, dvarsRest>>

\* the dispatcher a render returned is called with an action
ReducerDispatch(action) ==
    /\ rconst.set
    /\ Len(dlog) < MaxDispatches
    /\ LET c == create_dispatcher([value |-> value, renders |-> renders],
                                  rconst.reducer, action) IN
        /\ value' = c.value
        /\ renders' = c.renders
    /\ dlog' = Append(dlog, [new |-> action, stored |-> value])
    /\ UNCHANGED <<rvars, evars, mvars, extVars>>

ReducerInit ==
    /\ RInit /\ EInit0 /\ MInit0 /\ ExtInit0
    /\ value \in ReducerStates
    /\ renders = 0
    /\ dlog = << >>

ReducerNext ==
    \/ \E r \in Reducers : ReducerRender(r)
    \/ \E a \in ReducerActions : ReducerDispatch(a)

ReducerSpec == ReducerInit /\ [][ReducerNext]_vars

\* the left fold of the reducer of the first render over the first n
\* dispatched actions, from the value the first render returned
RECURSIVE ReducerFold(_)
ReducerFold(n) ==
    IF n = 0 THEN rret[1].state
    ELSE Reduce(rconst.reducer, ReducerFold(n - 1), dlog[n].new)

\* the dispatches whose reduction was not strictly equal to the stored value
ReducerChanges ==
    {k \in 1..Len(dlog) :
        ~StrictlyEqual(Reduce(rconst.reducer, dlog[k].stored, dlog[k].new), dlog[k].stored)}

\* C23: the stored state is the left fold of the reducer over the dispatched
\* actions (the same type and content; of two equal values the one stored
\* first is kept), every step reduces the value stored when it was
\* dispatched, a render is scheduled exactly for the steps whose result is
\* not strictly equal to that value, and every render returns the same
\* dispatcher.
C23_ReducerFold ==
    rret # << >> =>
        /\ value.type = ReducerFold(Len(dlog)).type
        /\ value.val = ReducerFold(Len(dlog)).val
        /\ \A k \in 1..Len(dlog) :
            LET after == IF k = Len(dlog) THEN value ELSE dlog[k + 1].stored
                r == Reduce(rconst.reducer, dlog[k].stored, dlog[k].new)
            IN  after = IF k \in ReducerChanges THEN r ELSE dlog[k].stored
        /\ renders = Cardinality(ReducerChanges)
        /\ \A n \in 1..Len(rret) : rret[n].dispatcher = rret[1].dispatcher

\* three actions were dispatched between two renders, one changing the
\* state, one reducing to an equal list that is a different object
C23_Witness ==
    /\ Len(rret) = MaxRenders
    /\ Len(dlog) = MaxDispatches
    /\ rret[1].state # rret[2].state
    /\ rret[2].state # value
    /\ ReducerChanges # {}
    /\ \E k \in 1..Len(dlog) :
        /\ k \notin ReducerChanges
        /\ Reduce(rconst.reducer, dlog[k].stored, dlog[k].new) # dlog[k].stored



(***************************************************************************)
(* join() called again by a caller whose wait on the event was cancelled   *)
(***************************************************************************)
\* await self.__aexit__(None, None, None) by a task that was cancelled while
\* it waited on self._join_event, up to its first await
JoinAgain(j) ==
    /\ RenderSuspended
    /\ tg # "init"
    /\ jpc[j] = "cancelled"
    /\ jpc' = [jpc EXCEPT ![j] = JoinBranch]
    /\ IF JoinBranch = "exit"
       THEN joining' = TRUE /\ teardowns' = teardowns + 1
       ELSE UNCHANGED <<joining, teardowns>>
    /\ UNCHANGED <<tg, tgErr, loopVars, sessVars, queueVars, hookVars>>

RejoinNext == JoinNext \/ \E j \in Joiners : JoinAgain(j)
RejoinSpec == Init /\ [][RejoinNext]_vars

\* C24: at most one caller is inside the teardown at a time, and while a
\* caller is inside it the guard self._joining is set.
C24_GuardHeld ==
    /\ Cardinality({j \in Joiners : jpc[j] = "exit"}) <= 1
    /\ (\E j \in Joiners : jpc[j] = "exit") => joining



\* C25: once the failure of one session has left its task, no other session
\* task and none of its loops is still running; the caller that ran the
\* teardown has the failure raised to it exactly when a session failed; and
\* the render task is cancelled only in a completed teardown, not by the
\* failure of a session.
C25_OneGroup ==
    /\ (\E c \in Clients : spc[c] = "failed") =>
          \A d \in Clients : ~Live(spc[d]) /\ ~Running(opc[d]) /\ ~Running(ipc[d])
    /\ \A j \in Joiners :
          jpc[j] \in {"returned", "raised"} =>
              (jpc[j] = "raised" <=> \E c \in Clients : spc[c] \in {"failed"})
    /\ rpc = "cancelled" =>
          tg = "done" /\ \E j \in Joiners : jpc[j] \in {"returned", "raised"}

\* a send or receive failure of one session has cancelled the other session
\* in the middle of its loops while the render loop goes on and join has not
\* been called
C25_Witness ==
    /\ \E c, d \in Clients :
        /\ spc[c] = "failed"
        /\ spc[d] = "cancelled" /\ opc[d] = "cancelled" /\ ipc[d] = "cancelled"
    /\ rpc = "render"
    /\ hist # << >>
    /\ \A j \in Joiners : jpc[j] = "idle"



\* C26: when the render loop has ended with an exception, no session task is
\* left open, and a caller that completes the teardown has the failure
\* raised to it.
C26_RenderFailureTearsDown ==
    rpc = "failed" =>
        /\ \A c \in Clients : ~Live(spc[c])
        /\ \A j \in Joiners : jpc[j] # "returned"



\* C27: a cleanup that has been invoked belongs to a registration that has
\* received its stop signal, or it was invoked by the activation of a newer
\* registration, whose body started right after it; the stop step of an
\* older registration invokes no cleanup of a registration that is still
\* active.
C27_OwnCleanupOnly ==
    \A k \in Regs :
        \A i \in At("cleanup", k) :
            \/ stop[k]
            \/ /\ i < Len(elog)
               /\ elog[i + 1].ev = "body"
               /\ elog[i + 1].reg > k



\* C28: when the function raised in a render that found a value stored, the
\* memo is as it was before that render: the value and the dependencies it
\* was computed for.
C28_RaiseLeavesMemo ==
    (mcount > 0 /\ mlast.raised /\ ~mlast.before.empty) => memo = mlast.before

====
